---- MODULE Spec2Model ----
(***************************************************************************)
(* A model of get_lol_id.py: a one-shot command that takes an API key and  *)
(* a player identifier, asks the spectator endpoint for the player's       *)
(* current game, and prints the riotId of every participant.               *)
(*                                                                         *)
(* The interpreter's state is modelled directly: sys.argv, the module      *)
(* namespace (globals), the hidden accumulator and iterator of the list    *)
(* comprehension, the two output streams and the exit status.  The remote  *)
(* service is the environment: once the request is on the wire it either   *)
(* returns a response or raises.  The riotwatcher package is taken to be   *)
(* importable, its constructor to do no I/O and to accept any credential,  *)
(* and standard output to be writable.                                     *)
(*                                                                         *)
(* Text that reaches an output stream is a TLA+ string.  A riotId is kept  *)
(* as a sequence of one-character strings so that repr() can look at its   *)
(* characters.                                                             *)
(***************************************************************************)
EXTENDS Integers, Sequences, FiniteSets, TLC

VARIABLES
    argv,       \* sys.argv: the program name followed by the arguments
    pc,         \* the statement about to run
    globals,    \* the module namespace: a function from bound names to values
    acc,        \* the list comprehension's list under construction
    it,         \* the list comprehension's position in game_data['participants']
    network,    \* the requests sent to the remote service, in order
    stdout,     \* the lines written to standard output
    stderr,     \* the uncaught exception reported on standard error
    exit_code,  \* <<>> while the process runs, <<status>> once it has ended
    prior       \* what an earlier run of the command was seen to do

vars == <<argv, pc, globals, acc, it, network, stdout, stderr, exit_code, prior>>

(***************************************************************************)
(* Bounds of the model.                                                    *)
(***************************************************************************)
MaxArgs == 4

MaxParticipants == 2

(***************************************************************************)
(* Inputs.                                                                 *)
(***************************************************************************)
SQ == "'"

DQ == "\""

BS == "\\"

\* Command-line words; each may stand in any position.
Tokens == {"RGAPI-a", "RGAPI-b", "puuid-c"}

ProgramName == "get_lol_id.py"

RECURSIVE SeqsOfLen(_, _)
SeqsOfLen(S, n) ==
    IF n = 0 THEN {<<>>}
    ELSE {Append(s, x) : s \in SeqsOfLen(S, n - 1), x \in S}

SeqsUpTo(S, n) == UNION {SeqsOfLen(S, k) : k \in 0..n}

Argvs == {<<ProgramName>> \o a : a \in SeqsUpTo(Tokens, MaxArgs)}

\* riotId values: two plain ones, one with an apostrophe, one with both
\* kinds of quote and a backslash.
RiotIdValues ==
    { <<"A", "#", "1">>,
      <<"B", "#", "2">>,
      <<"O", SQ, "K">>,
      <<SQ, DQ, BS>> }

\* A participant record is a dict; one shape lacks the 'riotId' key.
Participants ==
    {[championId |-> 1, riotId |-> v] : v \in RiotIdValues}
        \cup {[championId |-> 1]}

\* A response is a dict; one shape lacks the 'participants' key.
Responses ==
    {[gameId |-> 1, participants |-> ps] : ps \in SeqsUpTo(Participants, MaxParticipants)}
        \cup {[gameId |-> 1]}

\* What the remote call raises: a rejected credential, a player who is not
\* in a game, a network failure.
RemoteErrors == {"ApiError: 403", "ApiError: 404", "ConnectionError"}

NoPrior == [argv |-> <<>>]

EmptyNamespace == [n \in {} |-> n]

Bound(name) == name \in DOMAIN globals

Bind(name, value) == (name :> value) @@ globals

(***************************************************************************)
(* What print() writes for a list of strings: list.__repr__ over           *)
(* str.__repr__.                                                           *)
(***************************************************************************)
Range(s) == {s[i] : i \in DOMAIN s}

\* str.__repr__ wraps the text in apostrophes, unless the text holds an
\* apostrophe and no double quote.
ReprQuote(chars) ==
    IF SQ \in Range(chars) /\ DQ \notin Range(chars) THEN DQ ELSE SQ

\* A backslash and the wrapping quote are escaped; every other character of
\* the inputs is printable and stands for itself.
ReprChar(c, quote) ==
    IF c = BS \/ c = quote THEN BS \o c ELSE c

RECURSIVE ReprBody(_, _)
ReprBody(chars, quote) ==
    IF chars = <<>> THEN ""
    ELSE ReprChar(Head(chars), quote) \o ReprBody(Tail(chars), quote)

PyReprStr(chars) ==
    ReprQuote(chars) \o ReprBody(chars, ReprQuote(chars)) \o ReprQuote(chars)

ReprSeparator == ", "

RECURSIVE ReprItems(_)
ReprItems(list) ==
    IF list = <<>> THEN ""
    ELSE IF Len(list) = 1 THEN PyReprStr(list[1])
    ELSE PyReprStr(Head(list)) \o ReprSeparator \o ReprItems(Tail(list))

PyReprList(list) == "[" \o ReprItems(list) \o "]"

UsageMessage == "Usage: python3 get_lol_id.py <api_key> <puuid>"

Region == "jp1"

\* sys.argv[i], counted from 0 as the program counts.
SysArgv(i) == argv[i + 1]

(***************************************************************************)
(* The initial state: a fresh process, nothing bound, nothing written.     *)
(***************************************************************************)
Fresh(a) ==
    /\ argv = a
    /\ pc = "check_args"
    /\ globals = EmptyNamespace
    /\ acc = <<>>
    /\ it = 0
    /\ network = <<>>
    /\ stdout = <<>>
    /\ stderr = <<>>
    /\ exit_code = <<>>

Init ==
    /\ \E a \in Argvs : Fresh(a)
    /\ prior = NoPrior

(***************************************************************************)
(* An exception nothing catches: the interpreter reports it on standard    *)
(* error and the process ends with status 1.                               *)
(***************************************************************************)
\* Variant: the exception is swallowed and the script carries on to its end.
UncaughtSwallowed(e) ==
    /\ stderr' = Append(stderr, e)
    /\ exit_code' = exit_code
    /\ pc' = "end"

Uncaught(e) ==
    /\ stderr' = Append(stderr, e)
    /\ exit_code' = <<1>>
    /\ pc' = "exited"

(***************************************************************************)
(* The statements of the script, in source order.                          *)
(***************************************************************************)
\* Variant: only too few arguments are rejected.
ArgCountTooFew == Len(argv) < 3

ArgCountMismatch == Len(argv) # 3

\* if len(sys.argv) != 3:
CheckArgs ==
    /\ pc = "check_args"
    /\ pc' = IF ArgCountMismatch THEN "usage" ELSE "read_args"
    /\ UNCHANGED <<argv, globals, acc, it, network, stdout, stderr, exit_code, prior>>

\* print("Usage: ...")
PrintUsage ==
    /\ pc = "usage"
    /\ stdout' = Append(stdout, UsageMessage)
    /\ pc' = "sys_exit"
    /\ UNCHANGED <<argv, globals, acc, it, network, stderr, exit_code, prior>>

\* Variant: sys.exit(0).
SysExitZero ==
    /\ pc = "sys_exit"
    /\ exit_code' = <<0>>
    /\ pc' = "exited"
    /\ UNCHANGED <<argv, globals, acc, it, network, stdout, stderr, prior>>

\* sys.exit(1)
SysExit ==
    /\ pc = "sys_exit"
    /\ exit_code' = <<1>>
    /\ pc' = "exited"
    /\ UNCHANGED <<argv, globals, acc, it, network, stdout, stderr, prior>>

\* Variant: the credential is read from the wrong position.
ApiKeyArgShifted == SysArgv(2)

ApiKeyArg == SysArgv(1)

PuuidArg == SysArgv(2)

\* api_key = sys.argv[1]; puuid = sys.argv[2]
ReadArgs ==
    /\ pc = "read_args"
    /\ globals' = ("puuid" :> PuuidArg) @@ Bind("api_key", ApiKeyArg)
    /\ pc' = "construct"
    /\ UNCHANGED <<argv, acc, it, network, stdout, stderr, exit_code, prior>>

\* lol_watcher = LolWatcher(api_key): the client keeps the credential and
\* sends nothing.
ConstructClient ==
    /\ pc = "construct"
    /\ globals' = Bind("lol_watcher", [api_key |-> globals["api_key"]])
    /\ pc' = "call"
    /\ UNCHANGED <<argv, acc, it, network, stdout, stderr, exit_code, prior>>

\* lol_watcher.spectator.by_summoner('jp1', puuid): the request goes out and
\* the program blocks on the reply.
CurrentGameRequest ==
    [ op |-> "spectator.by_summoner",
      api_key |-> globals["lol_watcher"].api_key,
      region |-> Region,
      id |-> globals["puuid"] ]

SendRequest ==
    /\ pc = "call"
    /\ network' = Append(network, CurrentGameRequest)
    /\ pc' = "await"
    /\ UNCHANGED <<argv, globals, acc, it, stdout, stderr, exit_code, prior>>

\* The call returns: game_data = <the response>.
RemoteReturns ==
    /\ pc = "await"
    /\ \E r \in Responses : globals' = Bind("game_data", r)
    /\ pc' = "extract"
    /\ UNCHANGED <<argv, acc, it, network, stdout, stderr, exit_code, prior>>

\* Variant: a failed call is tried again.
RemoteRaisesRetry ==
    /\ pc = "await"
    /\ pc' = "call"
    /\ UNCHANGED <<argv, globals, acc, it, network, stdout, stderr, exit_code, prior>>

\* The call raises, and nothing catches it.
RemoteRaises ==
    /\ pc = "await"
    /\ \E e \in RemoteErrors : Uncaught(e)
    /\ UNCHANGED <<argv, globals, acc, it, network, stdout, prior>>

\* game_data['participants']: the iterable of the comprehension, looked up
\* before the first element is visited.
LookupParticipants ==
    /\ pc = "extract"
    /\ IF "participants" \in DOMAIN globals["game_data"]
         THEN /\ it' = 1
              /\ pc' = "comprehension"
              /\ UNCHANGED <<stderr, exit_code>>
         ELSE /\ Uncaught("KeyError: 'participants'")
              /\ it' = it
    /\ UNCHANGED <<argv, globals, acc, network, stdout, prior>>

\* Variant: the value is put in front.
CollectInFront(list, value) == <<value>> \o list

\* What the comprehension does with one element's value.
Collect(list, value) == Append(list, value)

\* Variant: a record without a riotId ends the comprehension with the names
\* collected so far.
ComprehensionStepLenient ==
    /\ pc = "comprehension"
    /\ LET ps == globals["game_data"].participants IN
         IF it > Len(ps) \/ "riotId" \notin DOMAIN ps[it]
           THEN /\ globals' = Bind("riot_ids", acc)
                /\ pc' = "print"
                /\ UNCHANGED <<acc, it>>
           ELSE /\ acc' = Collect(acc, ps[it].riotId)
                /\ it' = it + 1
                /\ UNCHANGED <<pc, globals>>
    /\ UNCHANGED <<argv, network, stdout, stderr, exit_code, prior>>

\* [participant['riotId'] for participant in ...]: one element per step;
\* riot_ids is bound only when the iterable is exhausted.
ComprehensionStep ==
    /\ pc = "comprehension"
    /\ LET ps == globals["game_data"].participants IN
         IF it > Len(ps)
           THEN /\ globals' = Bind("riot_ids", acc)
                /\ pc' = "print"
                /\ UNCHANGED <<acc, it, stderr, exit_code>>
           ELSE IF "riotId" \in DOMAIN ps[it]
             THEN /\ acc' = Collect(acc, ps[it].riotId)
                  /\ it' = it + 1
                  /\ UNCHANGED <<pc, globals, stderr, exit_code>>
             ELSE /\ Uncaught("KeyError: 'riotId'")
                  /\ UNCHANGED <<globals, acc, it>>
    /\ UNCHANGED <<argv, network, stdout, prior>>

\* Variant: print(riot_ids, api_key).
PrintedNamesAndKey == PyReprList(globals["riot_ids"]) \o " " \o globals["api_key"]

\* The text print(riot_ids) writes.
PrintedNames == PyReprList(globals["riot_ids"])

\* Variant: one line per name.
PrintEachName ==
    /\ pc = "print"
    /\ stdout' = stdout \o [i \in DOMAIN globals["riot_ids"] |-> PyReprStr(globals["riot_ids"][i])]
    /\ pc' = "end"
    /\ UNCHANGED <<argv, globals, acc, it, network, stderr, exit_code, prior>>

\* print(riot_ids)
PrintRiotIds ==
    /\ pc = "print"
    /\ stdout' = Append(stdout, PrintedNames)
    /\ pc' = "end"
    /\ UNCHANGED <<argv, globals, acc, it, network, stderr, exit_code, prior>>

\* Variant: the script starts over instead of ending.
FinishStartsOver ==
    /\ pc = "end"
    /\ pc' = "check_args"
    /\ UNCHANGED <<argv, globals, acc, it, network, stdout, stderr, exit_code, prior>>

\* The script runs off its last line: the process ends with status 0.
Finish ==
    /\ pc = "end"
    /\ exit_code' = <<0>>
    /\ pc' = "exited"
    /\ UNCHANGED <<argv, globals, acc, it, network, stdout, stderr, prior>>

Next ==
    \/ CheckArgs
    \/ PrintUsage
    \/ SysExit
    \/ ReadArgs
    \/ ConstructClient
    \/ SendRequest
    \/ RemoteReturns
    \/ RemoteRaises
    \/ LookupParticipants
    \/ ComprehensionStep
    \/ PrintRiotIds
    \/ Finish

Spec == Init /\ [][Next]_vars

\* A sequential program takes its next step, and the remote call comes back.
FairSpec == Spec /\ WF_vars(Next)

(***************************************************************************)
(* The command run a second time: the shell starts a fresh process, with   *)
(* the same command line but for the API key or, after a run with the      *)
(* wrong number of arguments, with any other such command line.  What the  *)
(* finished run did is kept for comparison.                                *)
(***************************************************************************)
Outcome ==
    IF Bound("game_data") THEN [returned |-> globals["game_data"]]
    ELSE IF network # <<>> /\ stderr # <<>> THEN [raised |-> stderr[1]]
    ELSE [nothing |-> TRUE]

Observation ==
    [argv |-> argv, outcome |-> Outcome, stdout |-> stdout, exit_code |-> exit_code]

SameButApiKey(a, b) ==
    /\ Len(a) = Len(b)
    /\ \A i \in DOMAIN a : i # 2 => a[i] = b[i]

Reinvoke ==
    /\ pc = "exited"
    /\ prior = NoPrior
    /\ prior' = Observation
    /\ \E a \in Argvs :
         /\ \/ SameButApiKey(a, argv)
            \/ Len(a) # 3 /\ Len(argv) # 3
         /\ argv' = a
    /\ pc' = "check_args"
    /\ globals' = EmptyNamespace
    /\ acc' = <<>>
    /\ it' = 0
    /\ network' = <<>>
    /\ stdout' = <<>>
    /\ stderr' = <<>>
    /\ exit_code' = <<>>

NextPair == Next \/ Reinvoke

SpecPair == Init /\ [][NextPair]_vars

(***************************************************************************)
(* Properties.                                                             *)
(***************************************************************************)
Exited == pc = "exited"

TwoArguments == Len(argv) = 3

\* The value of 'riotId' in each record of a participant list, in order.
RiotIdsOf(ps) == [i \in DOMAIN ps |-> ps[i].riotId]

\* The response has a participant list and every record in it has a riotId.
WellShaped(r) ==
    /\ "participants" \in DOMAIN r
    /\ \A i \in DOMAIN r.participants : "riotId" \in DOMAIN r.participants[i]

RemoteRaised == network # <<>> /\ stderr # <<>> /\ stderr[1] \in RemoteErrors

ClientBuilt == Bound("lol_watcher")

\* C1: with an argument count other than two, the program prints the usage
\* message, exits with status 1, and never constructs the client nor issues
\* the current-game request.
C1_UsageOnArgCountMismatch ==
    ~TwoArguments =>
        /\ ~ClientBuilt
        /\ network = <<>>
        /\ pc \in {"check_args", "usage", "sys_exit", "exited"}
        /\ Exited => stdout = <<UsageMessage>> /\ exit_code = <<1>>

C1_Witness ==
    /\ Exited
    /\ Len(argv) = 4
    /\ stdout = <<UsageMessage>>
    /\ exit_code = <<1>>

\* C2: with two arguments and a response whose participants all carry a
\* riotId, the program prints exactly the list of those riotId values, same
\* length and same order, and exits 0; participants A#1, B#2 print
\* ['A#1', 'B#2'] and an empty participant list prints [].
C2_PrintsRiotIdsInOrder ==
    (Exited /\ TwoArguments /\ Bound("game_data") /\ WellShaped(globals["game_data"])) =>
        LET ps == globals["game_data"].participants IN
        /\ Bound("riot_ids")
        /\ Len(globals["riot_ids"]) = Len(ps)
        /\ \A i \in DOMAIN ps : globals["riot_ids"][i] = ps[i].riotId
        /\ stdout = <<PyReprList(RiotIdsOf(ps))>>
        /\ RiotIdsOf(ps) = << <<"A", "#", "1">>, <<"B", "#", "2">> >>
              => stdout = <<"['A#1', 'B#2']">>
        /\ RiotIdsOf(ps) = << <<"B", "#", "2">>, <<"A", "#", "1">> >>
              => stdout = <<"['B#2', 'A#1']">>
        /\ ps = <<>> => stdout = <<"[]">>
        /\ exit_code = <<0>>

C2_Witness ==
    /\ Exited
    /\ Bound("game_data")
    /\ WellShaped(globals["game_data"])
    /\ RiotIdsOf(globals["game_data"].participants) = << <<"A", "#", "1">>, <<"B", "#", "2">> >>
    /\ stdout = <<"['A#1', 'B#2']">>
    /\ exit_code = <<0>>

\* C3: with two arguments, an error raised by the current-game call is not
\* caught: no statement runs after it, the process ends with a non-zero
\* status, and the name list is never printed.
C3_RemoteErrorPropagates ==
    RemoteRaised =>
        /\ TwoArguments
        /\ Exited
        /\ exit_code # <<>> /\ exit_code[1] # 0
        /\ stdout = <<>>
        /\ ~Bound("game_data") /\ ~Bound("riot_ids")

C3_Witness ==
    /\ Exited
    /\ TwoArguments
    /\ stderr = <<"ApiError: 403">>
    /\ Len(network) = 1
    /\ exit_code = <<1>>

\* C4: the exit status is fixed by the outcome of the run: 1 on an
\* argument-count mismatch, 0 when the count is two and nothing raised,
\* non-zero whenever an uncaught error propagates; status 0 is reached only
\* after the remote call returned and the name list was printed.
C4_ExitCodeReflectsOutcome ==
    /\ Exited <=> exit_code # <<>>
    /\ Exited =>
        /\ ~TwoArguments => exit_code = <<1>>
        /\ (TwoArguments /\ stderr = <<>>) => exit_code = <<0>>
        /\ stderr # <<>> => exit_code[1] # 0
        /\ exit_code = <<0>> =>
              /\ TwoArguments
              /\ stderr = <<>>
              /\ Bound("game_data")
              /\ Bound("riot_ids")
              /\ stdout = <<PyReprList(globals["riot_ids"])>>

C4_Witness ==
    /\ Exited
    /\ exit_code = <<0>>
    /\ Bound("riot_ids")
    /\ Len(globals["riot_ids"]) = 2
    /\ Len(stdout) = 1

\* C5: at most one current-game request goes out in a run; a run with two
\* arguments sends exactly one and does not repeat it after a failure; and
\* the call has returned or raised before anything is extracted or printed.
C5_SingleAwaitedRequest ==
    /\ Len(network) <= 1
    /\ (Exited /\ TwoArguments) => Len(network) = 1
    /\ pc \in {"call", "await"} =>
          /\ ~Bound("game_data")
          /\ ~Bound("riot_ids")
          /\ acc = <<>> /\ it = 0
          /\ stdout = <<>>
    /\ (pc \in {"extract", "comprehension", "print", "end"} \/ it # 0 \/ acc # <<>>
            \/ Bound("riot_ids") \/ (TwoArguments /\ stdout # <<>>)) =>
          /\ Len(network) = 1
          /\ Bound("game_data")

C5_Witness ==
    /\ Exited
    /\ TwoArguments
    /\ stderr = <<"ConnectionError">>
    /\ Len(network) = 1
    /\ ~Bound("game_data")

\* C6: the request is made for region 'jp1' whatever the arguments, for the
\* player identifier given as the second argument, through a client built
\* with the first argument as its credential, both unchanged.
C6_RequestParameters ==
    /\ ClientBuilt => globals["lol_watcher"].api_key = argv[2]
    /\ \A i \in DOMAIN network :
          /\ network[i].op = "spectator.by_summoner"
          /\ network[i].region = "jp1"
          /\ network[i].id = argv[3]
          /\ network[i].api_key = argv[2]

C6_Witness ==
    /\ Exited
    /\ Len(network) = 1
    /\ argv[2] # argv[3]
    /\ network[1].id = argv[3]
    /\ network[1].api_key = argv[2]

Malformed == Bound("game_data") /\ ~WellShaped(globals["game_data"])

\* C7: when the response has no 'participants' field, or some participant
\* record at any position has no 'riotId', nothing is ever written to
\* standard output, not even the names that precede the malformed record,
\* and the process ends with a non-zero status.
C7_NoPartialListOnShapeMismatch ==
    Malformed =>
        /\ stdout = <<>>
        /\ ~Bound("riot_ids")
        /\ pc \in {"extract", "comprehension", "exited"}
        /\ Exited => exit_code # <<>> /\ exit_code[1] # 0

C7_Witness ==
    /\ Exited
    /\ Malformed
    /\ "participants" \in DOMAIN globals["game_data"]
    /\ Len(globals["game_data"].participants) = 2
    /\ "riotId" \notin DOMAIN globals["game_data"].participants[2]
    /\ acc = << <<"A", "#", "1">> >>
    /\ stdout = <<>>

\* C8: a run writes at most one line to standard output: the usage message
\* and never the name list on an argument-count mismatch, the name list and
\* never the usage message on success, and nothing when the remote call or
\* the extraction fails.
C8_OneOutputLinePerPath ==
    /\ Len(stdout) <= 1
    /\ ~TwoArguments => \A i \in DOMAIN stdout : stdout[i] = UsageMessage
    /\ TwoArguments => \A i \in DOMAIN stdout :
          /\ stdout[i] # UsageMessage
          /\ Bound("riot_ids") /\ stdout[i] = PyReprList(globals["riot_ids"])
    /\ Exited =>
          /\ ~TwoArguments => Len(stdout) = 1
          /\ exit_code = <<0>> => Len(stdout) = 1
          /\ stderr # <<>> => stdout = <<>>

C8_Witness ==
    /\ Exited
    /\ TwoArguments
    /\ exit_code = <<0>>
    /\ stdout = <<"[\"O'K\", '\\'\"\\\\']">>

\* The place of each statement on the single path through the script.
Rank ==
    [ check_args |-> 1, usage |-> 2, sys_exit |-> 3,
      read_args |-> 2, construct |-> 3, call |-> 4, await |-> 5,
      extract |-> 6, comprehension |-> 7, print |-> 8, end |-> 9,
      exited |-> 10 ]

UsageExit == Exited /\ ~TwoArguments /\ exit_code = <<1>> /\ stderr = <<>>

SuccessExit == Exited /\ TwoArguments /\ exit_code = <<0>> /\ stderr = <<>>

CrashExit == Exited /\ TwoArguments /\ exit_code = <<1>> /\ stderr # <<>>

\* C9: execution is one linear path: every step moves forward in the order
\* argument check, client construction, remote call, extraction, print (the
\* extraction only advancing through the participants), no statement is
\* reached twice, and, the remote call coming back, every run ends in a
\* usage exit, a success exit or a crash exit, where no step is possible.
C9_LinearPathTerminates ==
    /\ [][ /\ pc' # pc => Rank[pc'] > Rank[pc]
           /\ pc' = pc => pc = "comprehension" /\ it' = it + 1
           /\ Len(network') <= 1 ]_vars
    /\ [](Exited => (UsageExit \/ SuccessExit \/ CrashExit) /\ ~ENABLED Next)
    /\ <>Exited

C9_Witness ==
    /\ SuccessExit
    /\ it = 3
    /\ Len(globals["game_data"].participants) = 2

\* C10: the credential never reaches the output.  Two runs whose command
\* lines differ only in the API key and that get the same response, or the
\* same failure, from the remote call write the same standard output and
\* end with the same status; and on an argument-count mismatch the output
\* is the same fixed text whatever the arguments are.
C10_OutputIndependentOfApiKey ==
    (Exited /\ prior # NoPrior) =>
        /\ (SameButApiKey(argv, prior.argv) /\ Outcome = prior.outcome) =>
              /\ stdout = prior.stdout
              /\ exit_code = prior.exit_code
        /\ (~TwoArguments /\ Len(prior.argv) # 3) =>
              /\ stdout = prior.stdout
              /\ exit_code = prior.exit_code

C10_Witness ==
    /\ Exited
    /\ prior # NoPrior
    /\ TwoArguments
    /\ argv[2] # prior.argv[2]
    /\ argv[3] = prior.argv[3]
    /\ Outcome = prior.outcome
    /\ Bound("riot_ids")
    /\ Len(globals["riot_ids"]) = 2
    /\ stdout = prior.stdout
    /\ exit_code = <<0>>

====
